---- MODULE Spec2Model ----
(***************************************************************************)
(* Model of src/src/main.rs of looa: the dynamically typed `Value` handle  *)
(* (an Rc<ValueData> whose block really holds an InnerValueData<T>), its   *)
(* tag-dispatched queries, comparison family, arithmetic operators and its *)
(* manual destructor.                                                      *)
(*                                                                         *)
(* A panic (unimplemented!(), expect("Poop"), a str slicing failure) ends  *)
(* the program: the state in which `last.panic` is set has no successor.   *)
(***************************************************************************)
EXTENDS Integers, Sequences, FiniteSets, TLC

\* ------------------------------------------------------------------ bounds
\* Number of Rc blocks that can exist at once.
MaxAllocs == 2
\* Number of handles the caller holds on one block at once.
MaxClones == 2
\* Number of insertions made into a BTreeMap before it is wrapped in a Value.
MaxTableLen == 1

AllocIds == 1..MaxAllocs

\* ------------------------------------------------------------------ f32
\* A LuaNumber (f32) is a sign and a magnitude num/den in lowest terms;
\* den = 0 is an infinity (num = 1) or the not-a-number value (num = 0).
\* All operands of the model are small integers, on which f32 arithmetic
\* is exact.
F32(k, neg, num, den) == [k |-> k, neg |-> neg, num |-> num, den |-> den]

\* ::std::f32::NAN
LUA_NAN == F32("nan", FALSE, 0, 0)

FInf(neg) == F32("inf", neg, 1, 0)

FZero(neg) == F32("fin", neg, 0, 1)

FInt(n) == IF n < 0 THEN F32("fin", TRUE, -n, 1) ELSE F32("fin", FALSE, n, 1)

NegZero == FZero(TRUE)

RECURSIVE Gcd(_, _)
Gcd(a, b) == IF b = 0 THEN a ELSE Gcd(b, a % b)

\* The finite number with sign bit neg and magnitude n/d, in lowest terms.
FRat(neg, n, d) ==
  IF n = 0 THEN FZero(neg)
  ELSE LET g == Gcd(n, d) IN F32("fin", neg, n \div g, d \div g)

IsNaN(x) == x.k = "nan"

IsZero(x) == x.k = "fin" /\ x.num = 0

\* Signed numerator of a finite number.
SNum(x) == IF x.neg THEN -x.num ELSE x.num

\* f32 == f32: not-a-number is unequal to everything, the two zeros are equal.
FEq(x, y) ==
  /\ ~IsNaN(x)
  /\ ~IsNaN(y)
  /\ \/ (IsZero(x) /\ IsZero(y))
     \/ x = y

\* x < y on numbers that are not not-a-number.
FLt(x, y) ==
  CASE x.k = "inf" /\ y.k = "inf" -> x.neg /\ ~y.neg
    [] x.k = "inf" -> x.neg
    [] y.k = "inf" -> ~y.neg
    [] OTHER -> SNum(x) * y.den < SNum(y) * x.den

\* PartialOrd::partial_cmp on f32.
FPartialCmp(x, y) ==
  CASE IsNaN(x) \/ IsNaN(y) -> "None"
    [] FEq(x, y) -> "Equal"
    [] FLt(x, y) -> "Less"
    [] OTHER -> "Greater"

\* -x: flips the sign bit.
FNeg(x) == IF IsNaN(x) THEN x ELSE [x EXCEPT !.neg = ~x.neg]

\* x + y
FAdd(x, y) ==
  CASE IsNaN(x) \/ IsNaN(y) -> LUA_NAN
    [] x.k = "inf" /\ y.k = "inf" -> IF x.neg = y.neg THEN x ELSE LUA_NAN
    [] x.k = "inf" -> x
    [] y.k = "inf" -> y
    [] IsZero(x) /\ IsZero(y) -> FZero(x.neg /\ y.neg)
    [] OTHER ->
         LET s == SNum(x) * y.den + SNum(y) * x.den
             d == x.den * y.den
         IN IF s < 0 THEN FRat(TRUE, -s, d) ELSE FRat(FALSE, s, d)

\* x - y
FSub(x, y) == FAdd(x, FNeg(y))

\* x * y
FMul(x, y) ==
  CASE IsNaN(x) \/ IsNaN(y) -> LUA_NAN
    [] (x.k = "inf" /\ IsZero(y)) \/ (IsZero(x) /\ y.k = "inf") -> LUA_NAN
    [] x.k = "inf" \/ y.k = "inf" -> FInf(x.neg # y.neg)
    [] OTHER -> FRat(x.neg # y.neg, x.num * y.num, x.den * y.den)

\* x / y
FDiv(x, y) ==
  CASE IsNaN(x) \/ IsNaN(y) -> LUA_NAN
    [] x.k = "inf" /\ y.k = "inf" -> LUA_NAN
    [] IsZero(x) /\ IsZero(y) -> LUA_NAN
    [] x.k = "inf" -> FInf(x.neg # y.neg)
    [] y.k = "inf" -> FZero(x.neg # y.neg)
    [] IsZero(y) -> FInf(x.neg # y.neg)
    [] OTHER -> FRat(x.neg # y.neg, x.num * y.den, x.den * y.num)

\* The underlying operation of each operator name.
FOp(op, x, y) ==
  CASE op = "add" -> FAdd(x, y)
    [] op = "sub" -> FSub(x, y)
    [] op = "mul" -> FMul(x, y)
    [] op = "div" -> FDiv(x, y)

RECURSIVE Pow2(_)
Pow2(n) == IF n = 0 THEN 1 ELSE 2 * Pow2(n - 1)

RECURSIVE Log2(_)
Log2(n) == IF n < 2 THEN 0 ELSE 1 + Log2(n \div 2)

\* The low 31 bits of the IEEE-754 single encoding of a magnitude: an
\* integer below 2^24 (exact in f32), an infinity or the quiet not-a-number.
F32LowBits(x) ==
  CASE x.k = "nan" -> 255 * Pow2(23) + Pow2(22)
    [] x.k = "inf" -> 255 * Pow2(23)
    [] x.k = "fin" /\ x.num = 0 -> 0
    [] x.k = "fin" /\ x.den = 1 /\ x.num > 0 /\ x.num < Pow2(24) ->
         LET e == Log2(x.num)
         IN (e + 127) * Pow2(23) + (x.num - Pow2(e)) * Pow2(23 - e)

\* *(p as *const f32 as *const i32): the bit pattern read as an i32; a set
\* sign bit makes it low - 2^31.
F32Bits(x) ==
  IF x.neg THEN (F32LowBits(x) - 2147483647) - 1 ELSE F32LowBits(x)

\* ------------------------------------------------------------------ Type
\* enum Type, in declaration order: #[derive(PartialOrd, Ord)] orders the
\* variants by their position.
Type ==
  <<"Nil", "Boolean", "Number", "String", "Function", "Userdata", "Thread", "Table">>

TypeSet == {Type[i] : i \in 1..Len(Type)}

\* The discriminant of a variant.
TypeIndex(t) == (CHOOSE i \in 1..Len(Type) : Type[i] = t) - 1

\* Ord::cmp on two integers.
IntCmp(m, n) == IF m < n THEN "Less" ELSE IF m = n THEN "Equal" ELSE "Greater"

\* Ord::cmp(&ty, &other_ty), derived.
TypeCmp(t, u) == IntCmp(TypeIndex(t), TypeIndex(u))

\* The payload types for which ConvertValue is implemented.
BoundTypes == {"LuaNil", "LuaBool", "LuaNumber", "LuaString", "LuaUserdata", "LuaTable"}

\* <T as ConvertValue>::TYPE
TYPE(T) ==
  CASE T = "LuaNil" -> "Nil"
    [] T = "LuaBool" -> "Boolean"
    [] T = "LuaNumber" -> "Number"
    [] T = "LuaString" -> "String"
    [] T = "LuaUserdata" -> "Userdata"
    [] T = "LuaTable" -> "Table"

\* ------------------------------------------------------------------ bytes
\* A LuaString is a sequence of bytes 0..255.
IsCont(b) == b >= 128 /\ b <= 191

\* Whether the bytes from position i on are well-formed UTF-8.
RECURSIVE ValidUtf8From(_, _)
ValidUtf8From(s, i) ==
  IF i > Len(s) THEN TRUE
  ELSE
    LET b == s[i]
        n == Len(s)
        c(k) == i + k <= n /\ IsCont(s[i + k])
    IN CASE b < 128 -> ValidUtf8From(s, i + 1)
         [] b >= 194 /\ b <= 223 -> c(1) /\ ValidUtf8From(s, i + 2)
         [] b = 224 -> c(1) /\ s[i + 1] >= 160 /\ c(2) /\ ValidUtf8From(s, i + 3)
         [] b = 237 -> c(1) /\ s[i + 1] <= 159 /\ c(2) /\ ValidUtf8From(s, i + 3)
         [] b >= 225 /\ b <= 239 /\ b # 237 -> c(1) /\ c(2) /\ ValidUtf8From(s, i + 3)
         [] b = 240 -> c(1) /\ s[i + 1] >= 144 /\ c(2) /\ c(3) /\ ValidUtf8From(s, i + 4)
         [] b = 244 -> c(1) /\ s[i + 1] <= 143 /\ c(2) /\ c(3) /\ ValidUtf8From(s, i + 4)
         [] b >= 241 /\ b <= 243 -> c(1) /\ c(2) /\ c(3) /\ ValidUtf8From(s, i + 4)
         [] OTHER -> FALSE

ValidUtf8(s) == ValidUtf8From(s, 1)

IsDigit(b) == b >= 48 /\ b <= 57

\* The value of a run of ASCII digits.
RECURSIVE DigitsValue(_, _)
DigitsValue(s, acc) ==
  IF s = <<>> THEN acc ELSE DigitsValue(Tail(s), 10 * acc + (Head(s) - 48))

\* str::parse::<f32>() on text made of ASCII digits, signs and letters other
\* than those of "inf", "nan" and an exponent (the strings of StrPool): an
\* optional sign and at least one digit is a number, anything else an Err.
ParseF32(s) ==
  LET signed == s # <<>> /\ Head(s) \in {43, 45}
      digits == IF signed THEN Tail(s) ELSE s
  IN IF digits # <<>> /\ \A i \in 1..Len(digits) : IsDigit(digits[i])
     THEN [ok |-> TRUE,
           v |-> FRat(signed /\ Head(s) = 45, DigitsValue(digits, 0), 1)]
     ELSE [ok |-> FALSE, v |-> LUA_NAN]

\* What str::from_utf8_unchecked followed by parse can do on bytes that are
\* not UTF-8 (undefined behaviour): the float parser reads bytes and answers
\* Err, or its slicing after a sign checks a char boundary and panics.
UbOutcomes == {"err", "panic"}

\* ------------------------------------------------------------------ payloads
\* "42", "abc", and a minus sign followed by a lone continuation byte.
StrPool == {<<52, 50>>, <<97, 98, 99>>, <<45, 191>>}

NumPool == {LUA_NAN, NegZero, FInt(0), FInt(2)}

\* The values Value::new is called with, per payload type other than tables.
Payloads(T) ==
  CASE T = "LuaNil" -> {"()"}
    [] T = "LuaBool" -> BOOLEAN
    [] T = "LuaNumber" -> NumPool
    [] T = "LuaString" -> StrPool
    [] T = "LuaUserdata" -> {"any"}

\* The bits of a payload read as another type: an arbitrary value of T.
Garbage(T) ==
  CASE T = "LuaNil" -> "()"
    [] T = "LuaBool" -> FALSE
    [] T = "LuaNumber" -> FZero(FALSE)
    [] T = "LuaString" -> <<>>
    [] T = "LuaUserdata" -> "any"
    [] T = "LuaTable" -> <<>>

\* Whether dropping a T runs code (a Box or a BTreeMap does; (), bool, f32 do not).
NeedsDrop(T) == T \in {"LuaString", "LuaUserdata", "LuaTable"}

\* ------------------------------------------------------------------ blocks
\* The Rc block behind a handle: the strong count, the tag field `_ty`, and
\* the payload `val` of type `pt`.  payloadDrops counts the runs of the
\* payload's own destructor, deallocs the times the block was given back.
Block(st, ty, pt, val, strong, payloadDrops, deallocs) ==
  [st |-> st, ty |-> ty, pt |-> pt, val |-> val, strong |-> strong,
   payloadDrops |-> payloadDrops, deallocs |-> deallocs]

Unused == Block("unused", "Nil", "LuaNil", "()", 0, 0, 0)

\* ConvertValue::into_value: a fresh block holding (Self::TYPE, self), owned
\* by the one handle returned.
into_value(T, x) == Block("live", TYPE(T), T, x, 1, 0, 0)

\* Value::nil()
nil == into_value("LuaNil", "()")

\* Value::type_of
type_of(blk) == blk.ty

\* What an operation answers: the panic that ended it ("none": it returned),
\* whether it read a payload as a type other than the one stored, its value.
Res(panic, reint, v) == [panic |-> panic, reint |-> reint, v |-> v]

\* ConvertValue::from_value_raw: the payload read as a T, tag unchecked.
\* The payload is the field at offset 1 of a packed struct, so the reference
\* handed out is unaligned for every T but () and bool; reads through it are
\* the plain loads x86-64 performs at any address, and yield the payload.
from_value_raw(T, blk) ==
  IF blk.pt = T THEN [reint |-> FALSE, val |-> blk.val]
  ELSE [reint |-> TRUE, val |-> Garbage(T)]

\* from_value without its tag test.
from_value_Unchecked(T, blk) ==
  LET r == from_value_raw(T, blk) IN Res("none", r.reint, [some |-> TRUE, val |-> r.val])

\* ConvertValue::from_value: Some(payload) when the tag is T's, else None.
from_value(T, blk) ==
  IF type_of(blk) = TYPE(T)
  THEN LET r == from_value_raw(T, blk)
       IN Res("none", r.reint, [some |-> TRUE, val |-> r.val])
  ELSE Res("none", FALSE, [some |-> FALSE, val |-> Garbage(T)])

\* Value::is_index
is_index(blk) ==
  CASE type_of(blk) = "Nil" -> Res("none", FALSE, FALSE)
    [] type_of(blk) = "Number" ->
         LET r == from_value_raw("LuaNumber", blk)
         IN Res("none", r.reint, FEq(r.val, LUA_NAN))
    [] OTHER -> Res("none", FALSE, TRUE)

\* to_bool testing a number against zero.
to_bool_ZeroFalsy(blk) ==
  CASE type_of(blk) = "Nil" -> Res("none", FALSE, FALSE)
    [] type_of(blk) = "Boolean" ->
         LET r == from_value_raw("LuaBool", blk) IN Res("none", r.reint, r.val)
    [] type_of(blk) = "Number" ->
         LET r == from_value_raw("LuaNumber", blk)
         IN Res("none", r.reint, ~FEq(r.val, FZero(FALSE)))
    [] OTHER -> Res("none", FALSE, TRUE)

\* Value::to_bool
to_bool(blk) ==
  CASE type_of(blk) = "Nil" -> Res("none", FALSE, FALSE)
    [] type_of(blk) = "Boolean" ->
         LET r == from_value_raw("LuaBool", blk) IN Res("none", r.reint, r.val)
    [] OTHER -> Res("none", FALSE, TRUE)

\* Value::as_number; ub is what the unchecked UTF-8 conversion does when the
\* bytes are not UTF-8.
as_number(blk, ub) ==
  CASE type_of(blk) = "Number" ->
         LET r == from_value_raw("LuaNumber", blk) IN Res("none", r.reint, r.val)
    [] type_of(blk) = "String" ->
         LET r == from_value_raw("LuaString", blk)
         IN IF ValidUtf8(r.val) \/ ub = "err"
            THEN Res("none", r.reint, ParseF32(r.val).v)
            ELSE Res("str slice", r.reint, LUA_NAN)
    [] OTHER -> Res("none", FALSE, LUA_NAN)

\* Value::num_binop: a fresh Number block made from op on the two coercions.
num_binop(a, b, op, ub) ==
  LET x == as_number(a, ub)
      y == as_number(b, ub)
  IN IF x.panic # "none" THEN Res(x.panic, x.reint, nil)
     ELSE IF y.panic # "none" THEN Res(y.panic, x.reint \/ y.reint, nil)
     ELSE Res("none", x.reint \/ y.reint, into_value("LuaNumber", FOp(op, x.v, y.v)))

\* impl Add / Sub / Mul / Div for &Value: the function handed to num_binop.
BinopFn(operator) ==
  CASE operator = "+" -> "add"
    [] operator = "-" -> "sub"
    [] operator = "*" -> "mul"
    [] operator = "/" -> "add"

Operators == {"+", "-", "*", "/"}

\* impl Neg for &Value
neg(a, ub) ==
  LET x == as_number(a, ub)
  IN IF x.panic # "none" THEN Res(x.panic, x.reint, nil)
     ELSE Res("none", x.reint, into_value("LuaNumber", FNeg(x.v)))

\* impl PartialEq for Value
eq(a, b) ==
  IF type_of(a) # type_of(b) THEN Res("none", FALSE, FALSE)
  ELSE CASE type_of(a) = "Nil" -> Res("none", FALSE, TRUE)
         [] type_of(a) = "Boolean" ->
              LET x == from_value_raw("LuaBool", a)
                  y == from_value_raw("LuaBool", b)
              IN Res("none", x.reint \/ y.reint, x.val = y.val)
         [] type_of(a) = "Number" ->
              LET x == from_value_raw("LuaNumber", a)
                  y == from_value_raw("LuaNumber", b)
              IN Res("none", x.reint \/ y.reint, FEq(x.val, y.val))
         [] OTHER -> Res("unimplemented", FALSE, FALSE)

\* Ord::cmp on bool: false < true.
BoolCmp(x, y) == IntCmp(IF x THEN 1 ELSE 0, IF y THEN 1 ELSE 0)

\* impl Ord for Value
cmp(a, b) ==
  IF type_of(a) # type_of(b) THEN Res("none", FALSE, TypeCmp(type_of(a), type_of(b)))
  ELSE CASE type_of(a) = "Nil" -> Res("none", FALSE, "Equal")
         [] type_of(a) = "Boolean" ->
              LET x == from_value_raw("LuaBool", a)
                  y == from_value_raw("LuaBool", b)
              IN Res("none", x.reint \/ y.reint, BoolCmp(x.val, y.val))
         [] type_of(a) = "Number" ->
              LET x == from_value_raw("LuaNumber", a)
                  y == from_value_raw("LuaNumber", b)
                  o == FPartialCmp(x.val, y.val)
              IN IF o = "None" THEN Res("Poop", x.reint \/ y.reint, "Equal")
                 ELSE Res("none", x.reint \/ y.reint, o)
         [] OTHER -> Res("unimplemented", FALSE, "Equal")

\* impl PartialOrd for Value
partial_cmp(a, b) == cmp(a, b)

\* ------------------------------------------------------------------ hash
\* impl Hash for Value, as the sequence of integers written to the hasher:
\* the derived hash of the tag writes its discriminant, () writes nothing,
\* a bool writes 0 or 1, a number writes its bit pattern as an i32, a table
\* writes each key and value in key order.  h maps block ids to blocks.
RECURSIVE hash(_, _)
RECURSIVE HashEntries(_, _, _)
HashEntries(h, entries, i) ==
  IF i > Len(entries) THEN Res("none", FALSE, <<>>)
  ELSE LET k == hash(h, h[entries[i].k])
           v == hash(h, h[entries[i].v])
           rest == HashEntries(h, entries, i + 1)
       IN CASE k.panic # "none" -> k
            [] v.panic # "none" -> v
            [] rest.panic # "none" -> rest
            [] OTHER -> Res("none", k.reint \/ v.reint \/ rest.reint, k.v \o v.v \o rest.v)

hash(h, blk) ==
  LET tag == <<TypeIndex(type_of(blk))>>
  IN CASE type_of(blk) = "Nil" -> Res("none", FALSE, tag)
       [] type_of(blk) = "Boolean" ->
            LET r == from_value_raw("LuaBool", blk)
            IN Res("none", r.reint, tag \o <<IF r.val THEN 1 ELSE 0>>)
       [] type_of(blk) = "Number" ->
            LET r == from_value_raw("LuaNumber", blk)
            IN Res("none", r.reint, tag \o <<F32Bits(r.val)>>)
       [] type_of(blk) = "Table" ->
            LET r == from_value_raw("LuaTable", blk)
                e == HashEntries(h, r.val, 1)
            IN Res(e.panic, r.reint \/ e.reint, tag \o e.v)
       [] OTHER -> Res("unimplemented", FALSE, tag)

\* ------------------------------------------------------------------ LuaTable
\* A LuaTable (BTreeMap<Value, Value>) of at most 11 entries is one leaf: a
\* sequence of [k, v] handles (block ids) in key order.  The search compares
\* the wanted key with the stored keys from the left: Greater goes on, Equal
\* is a hit at i, Less (or the end) is a miss at i.
RECURSIVE TableSearch(_, _, _, _)
TableSearch(h, entries, key, i) ==
  IF i > Len(entries) THEN Res("none", FALSE, [found |-> FALSE, idx |-> i])
  ELSE LET c == cmp(key, h[entries[i].k])
       IN CASE c.panic # "none" -> Res(c.panic, c.reint, [found |-> FALSE, idx |-> i])
            [] c.v = "Equal" -> Res("none", c.reint, [found |-> TRUE, idx |-> i])
            [] c.v = "Less" -> Res("none", c.reint, [found |-> FALSE, idx |-> i])
            [] OTHER ->
                 LET r == TableSearch(h, entries, key, i + 1)
                 IN Res(r.panic, c.reint \/ r.reint, r.v)

\* Value::get_index: the handle stored under index (found, a clone of the
\* handle on block ref) or Value::nil().
get_index(h, self, index) ==
  LET t == from_value("LuaTable", self)
  IN IF ~t.v.some THEN Res("none", FALSE, [found |-> FALSE, ref |-> 0])
     ELSE LET s == TableSearch(h, t.v.val, index, 1)
          IN IF s.panic = "none" /\ s.v.found
             THEN Res("none", t.reint \/ s.reint,
                      [found |-> TRUE, ref |-> t.v.val[s.v.idx].v])
             ELSE Res(s.panic, t.reint \/ s.reint, [found |-> FALSE, ref |-> 0])

\* ------------------------------------------------------------------ drop
\* Dropping an Rc whose block is read as InnerValueData<T> (T = "ValueData":
\* as the bare tag): the strong count goes down; at zero the payload's
\* destructor runs, when the block is read as holding one, and the block is
\* given back ("freed").
RcDrop(T, blk) ==
  IF blk.strong > 1 THEN [blk EXCEPT !.strong = blk.strong - 1]
  ELSE Block("freed", blk.ty, blk.pt, "()", 0,
             blk.payloadDrops + (IF T = "ValueData" THEN 0 ELSE 1),
             blk.deallocs + 1)

\* Value::drop::<T>: the handle's Rc is swapped for one on a fresh Nil block
\* and dropped as an Rc<InnerValueData<T>>; the Nil block dies with the handle.
Value_drop(T, blk) == Res("none", blk.pt # T, RcDrop(T, blk))

\* impl Drop for Value, then the drop of the field `data`: the block after
\* one handle on it is dropped.  The unimplemented!() arm panics and the
\* unwinding drops `data` as the Rc<ValueData> it is declared to be.
Drop_drop(blk) ==
  CASE type_of(blk) = "Nil" -> Res("none", FALSE, RcDrop("ValueData", blk))
    [] type_of(blk) = "Boolean" -> Value_drop("LuaBool", blk)
    [] type_of(blk) = "Number" -> Value_drop("LuaNumber", blk)
    [] type_of(blk) = "String" -> Value_drop("LuaString", blk)
    [] OTHER -> Res("unimplemented", FALSE, RcDrop("ValueData", blk))

\* BTreeMap::insert(k, v) used as a statement, repeated over kvs from the
\* i-th pair: an equal key keeps the stored key, replaces the value and hands
\* back the old one, which the statement drops, as insert drops the spare
\* key; otherwise the pair goes in at the position of the miss.
RECURSIVE BuildTable(_, _, _, _)
BuildTable(h, kvs, i, entries) ==
  IF i > Len(kvs) THEN Res("none", FALSE, entries)
  ELSE LET s == TableSearch(h, entries, h[kvs[i].k], 1)
           at == s.v.idx
       IN CASE s.panic # "none" -> Res(s.panic, s.reint, entries)
            [] s.v.found ->
                 LET spare == Drop_drop(h[kvs[i].k])
                     old == Drop_drop(h[entries[at].v])
                     next == [entries EXCEPT ![at].v = kvs[i].v]
                 IN IF spare.panic # "none" THEN Res(spare.panic, s.reint, next)
                    ELSE IF old.panic # "none" THEN Res(old.panic, s.reint, next)
                    ELSE BuildTable(h, kvs, i + 1, next)
            [] OTHER ->
                 BuildTable(h, kvs, i + 1,
                            SubSeq(entries, 1, at - 1) \o <<kvs[i]>>
                              \o SubSeq(entries, at, Len(entries)))

\* A table takes as index any value except nil and NaN (the rule stated on
\* Type::Table, which the code building a table follows).
ValidKey(blk) ==
  /\ blk.pt # "LuaNil"
  /\ ~(blk.pt = "LuaNumber" /\ IsNaN(blk.val))

\* How many handles of a table payload are on block a.
Refs(entries, a) ==
  Cardinality({i \in 1..Len(entries) : entries[i].k = a})
    + Cardinality({i \in 1..Len(entries) : entries[i].v = a})

\* ------------------------------------------------------------------ state
VARIABLES
  heap,   \* block id -> Block: the Rc blocks
  roots,  \* block id -> number of handles the caller holds on the block
  born,   \* block id -> the payload type and value Value::new was given
  last    \* the last operation: its name, operands, panic and result

vars == <<heap, roots, born, last>>

Last(op, a, b, u, r) ==
  [op |-> op, a |-> a, b |-> b, u |-> u, panic |-> r.panic, reint |-> r.reint,
   out |-> r.v]

NotBorn == [pt |-> "LuaNil", val |-> "()"]

\* No block, no handle.
Init ==
  /\ heap = [a \in AllocIds |-> Unused]
  /\ roots = [a \in AllocIds |-> 0]
  /\ born = [a \in AllocIds |-> NotBorn]
  /\ last = Last("init", 0, 0, "", Res("none", FALSE, "()"))

\* The program runs until an operation panics.
Running == last.panic = "none"

\* The caller holds a handle on block a.
Held(a) == roots[a] >= 1

HasRoom == \E a \in AllocIds : heap[a].st # "live"

\* The block a new allocation gets: the first that is not in use.
FreeSlot ==
  CHOOSE a \in AllocIds : heap[a].st # "live" /\ \A b \in 1..(a - 1) : heap[b].st = "live"

\* Value::new(x) for x of payload type T (Value::nil() for T = LuaNil).
New(T, x) ==
  /\ Running
  /\ HasRoom
  /\ heap' = [heap EXCEPT ![FreeSlot] = into_value(T, x)]
  /\ roots' = [roots EXCEPT ![FreeSlot] = 1]
  /\ born' = [born EXCEPT ![FreeSlot] = [pt |-> T, val |-> x]]
  /\ last' = Last("new", 0, 0, "", Res("none", FALSE, "()"))

\* The blocks after Value::new(t) of a table t put in block at, whose
\* entries hold one more handle on each block they name.
WithTable(h, at, entries) ==
  [a \in DOMAIN h |->
     IF a = at THEN into_value("LuaTable", entries)
     ELSE [h[a] EXCEPT !.strong = h[a].strong + Refs(entries, a)]]

\* let mut t = BTreeMap::new(); t.insert(k.clone(), v.clone()); ...;
\* Value::new(t), for the pairs kvs of handles the caller holds.  A panic in
\* an insert unwinds through the clones made, so the counts stay as they were.
NewTable(kvs) ==
  /\ Running
  /\ HasRoom
  /\ \A i \in 1..Len(kvs) : Held(kvs[i].k) /\ Held(kvs[i].v) /\ ValidKey(heap[kvs[i].k])
  /\ LET t == BuildTable(heap, kvs, 1, <<>>)
     IN IF t.panic # "none"
        THEN /\ UNCHANGED <<heap, roots, born>>
             /\ last' = Last("new_table", 0, 0, "", Res(t.panic, t.reint, "()"))
        ELSE /\ heap' = WithTable(heap, FreeSlot, t.v)
             /\ roots' = [roots EXCEPT ![FreeSlot] = 1]
             /\ born' = [born EXCEPT ![FreeSlot] = [pt |-> "LuaTable", val |-> t.v]]
             /\ last' = Last("new_table", 0, 0, "", Res("none", t.reint, "()"))

\* #[derive(Clone)]: Rc::clone, one more handle on the same block.
Clone(a) ==
  /\ Running
  /\ Held(a)
  /\ roots[a] < MaxClones
  /\ heap' = [heap EXCEPT ![a].strong = heap[a].strong + 1]
  /\ roots' = [roots EXCEPT ![a] = roots[a] + 1]
  /\ UNCHANGED born
  /\ last' = Last("clone", 0, 0, "", Res("none", FALSE, "()"))

\* The memory of a block after a drop: a block given back is free again.
Swept(blk) == IF blk.st = "freed" THEN Unused ELSE blk

\* The caller drops one of its handles on block a; last.out is the block as
\* the drop left it.
DropHandle(a) ==
  /\ Running
  /\ Held(a)
  /\ LET d == Drop_drop(heap[a])
     IN /\ heap' = [heap EXCEPT ![a] = Swept(d.v)]
        /\ roots' = [roots EXCEPT ![a] = roots[a] - 1]
        /\ born' = [born EXCEPT ![a] = IF d.v.st = "freed" THEN NotBorn ELSE born[a]]
        /\ last' = Last("drop", 0, 0, "", d)

\* a op b on handles passed by value: &self op &other, after which the two
\* handles, now owned by the operator, are dropped (also when unwinding).
\* The handle returned is on a fresh Number block, which the caller holds
\* as a temporary (as main's println!("{}", a * b) does): it is kept in
\* last.out and takes no place among the blocks.
BinopVal(operator, a, b, ub) ==
  /\ Running
  /\ Held(a)
  /\ Held(b)
  /\ a = b => roots[a] >= 2
  /\ LET r == num_binop(heap[a], heap[b], BinopFn(operator), ub)
         d1 == Drop_drop(heap[b])
         h1 == [heap EXCEPT ![b] = d1.v]
         d2 == Drop_drop(h1[a])
         h2 == [h1 EXCEPT ![a] = d2.v]
         panic == CASE r.panic # "none" -> r.panic
                    [] d1.panic # "none" -> "drop " \o d1.panic
                    [] d2.panic # "none" -> "drop " \o d2.panic
                    [] OTHER -> "none"
     IN /\ heap' = [c \in AllocIds |-> Swept(h2[c])]
        /\ roots' = [c \in AllocIds |->
                       roots[c] - (IF c = a THEN 1 ELSE 0) - (IF c = b THEN 1 ELSE 0)]
        /\ born' = [c \in AllocIds |-> IF h2[c].st = "freed" THEN NotBorn ELSE born[c]]
        /\ last' = Last("val" \o operator, a, b, "",
                        Res(panic, r.reint \/ d1.reint \/ d2.reint, r.v))

\* self.get_index(&index): a hit returns a clone of the stored handle, which
\* the caller then holds; a miss returns Value::nil(), a temporary on a
\* fresh Nil block.  last.out.blk is the block of the handle returned.
GetIndex(a, k) ==
  /\ Running
  /\ Held(a)
  /\ Held(k)
  /\ LET g == get_index(heap, heap[a], heap[k])
         ref == g.v.ref
     IN IF g.panic = "none" /\ g.v.found
        THEN /\ roots[ref] < MaxClones
             /\ heap' = [heap EXCEPT ![ref].strong = heap[ref].strong + 1]
             /\ roots' = [roots EXCEPT ![ref] = roots[ref] + 1]
             /\ UNCHANGED born
             /\ last' = Last("get_index", a, k, "", Res("none", g.reint,
                             [found |-> TRUE, ref |-> ref, blk |-> heap'[ref]]))
        ELSE /\ UNCHANGED <<heap, roots, born>>
             /\ last' = Last("get_index", a, k, "", Res(g.panic, g.reint,
                             [found |-> FALSE, ref |-> 0, blk |-> nil]))

\* The sequences of at most MaxTableLen pairs of handles on the blocks ids.
KvSeqs(ids) ==
  LET Pair == [k : ids, v : ids]
  IN UNION {[1..n -> Pair] : n \in 0..MaxTableLen}

\* The program that makes, clones and drops handles.
Next ==
  \/ \E T \in BoundTypes \ {"LuaTable"} : \E x \in Payloads(T) : New(T, x)
  \/ \E kvs \in KvSeqs(AllocIds) : NewTable(kvs)
  \/ \E a \in AllocIds : Clone(a)
  \/ \E a \in AllocIds : DropHandle(a)

Spec == Init /\ [][Next]_vars

\* ------------------------------------------------------------------ operations
\* A query on handles the caller holds: nothing but `last` changes.
Query(l) == Running /\ UNCHANGED <<heap, roots, born>> /\ last' = l

\* self.type_of()
TypeOf(a) == Held(a) /\ Query(Last("type_of", a, 0, "", Res("none", FALSE, type_of(heap[a]))))

\* U::from_value(&self)
FromValue(U, a) == Held(a) /\ Query(Last("from_value", a, 0, U, from_value(U, heap[a])))

\* self.is_index()
IsIndex(a) == Held(a) /\ Query(Last("is_index", a, 0, "", is_index(heap[a])))

\* self.to_bool()
ToBool(a) == Held(a) /\ Query(Last("to_bool", a, 0, "", to_bool(heap[a])))

\* self.as_number()
AsNumber(a, ub) == Held(a) /\ Query(Last("as_number", a, 0, "", as_number(heap[a], ub)))

\* a == b
Eq(a, b) == Held(a) /\ Held(b) /\ Query(Last("eq", a, b, "", eq(heap[a], heap[b])))

\* a.cmp(&b)
Cmp(a, b) == Held(a) /\ Held(b) /\ Query(Last("cmp", a, b, "", cmp(heap[a], heap[b])))

\* a.hash(&mut hasher)
Hash(a) == Held(a) /\ Query(Last("hash", a, 0, "", hash(heap, heap[a])))

\* &a op &b; last.out is the fresh Number block of the handle returned.
BinopRef(operator, a, b, ub) ==
  /\ Held(a)
  /\ Held(b)
  /\ Query(Last(operator, a, b, "", num_binop(heap[a], heap[b], BinopFn(operator), ub)))

\* -&a
Neg(a, ub) == Held(a) /\ Query(Last("neg", a, 0, "", neg(heap[a], ub)))

\* The blocks Value::new can make without a table.
PlainBlocks ==
  UNION {{into_value(T, x) : x \in Payloads(T)} : T \in BoundTypes \ {"LuaTable"}}

\* The states of n blocks, one handle each, that n constructions lead to:
\* each block is made by Value::new from a plain payload or from a table of
\* handles on the blocks made before it.
RECURSIVE Heaps(_)
Heaps(n) ==
  IF n = 0 THEN {<<>>}
  ELSE LET prev == Heaps(n - 1)
           plain == {Append(h, blk) : h \in prev, blk \in PlainBlocks}
           tables ==
             UNION {{WithTable(Append(h, Unused), n, BuildTable(h, kvs, 1, <<>>).v) :
                       kvs \in {q \in KvSeqs(1..(n - 1)) :
                                  /\ \A i \in 1..Len(q) : ValidKey(h[q[i].k])
                                  /\ BuildTable(h, q, 1, <<>>).panic = "none"}} :
                    h \in prev}
       IN plain \cup tables

\* The operands of the queries: any MaxAllocs constructed handles.
InitOps ==
  /\ heap \in {[a \in AllocIds |-> h[a]] : h \in Heaps(MaxAllocs)}
  /\ roots = [a \in AllocIds |-> 1]
  /\ born = [a \in AllocIds |-> [pt |-> heap[a].pt, val |-> heap[a].val]]
  /\ last = Last("init", 0, 0, "", Res("none", FALSE, "()"))

\* The operands are as constructed: no operation was applied yet.
Fresh == last.op = "init"

\* One operation on the operands.
NextOps ==
  \/ \E a \in AllocIds : Fresh /\ TypeOf(a)
  \/ \E a \in AllocIds : \E U \in BoundTypes : Fresh /\ FromValue(U, a)
  \/ \E a \in AllocIds : Fresh /\ IsIndex(a)
  \/ \E a \in AllocIds : Fresh /\ ToBool(a)
  \/ \E a \in AllocIds : \E ub \in UbOutcomes : Fresh /\ AsNumber(a, ub)
  \/ \E a, b \in AllocIds : Fresh /\ Eq(a, b)
  \/ \E a, b \in AllocIds : Fresh /\ Cmp(a, b)
  \/ \E a \in AllocIds : Fresh /\ Hash(a)
  \/ \E a, k \in AllocIds : Fresh /\ GetIndex(a, k)
  \/ \E a, b \in AllocIds : \E o \in Operators : \E ub \in UbOutcomes :
       Fresh /\ BinopRef(o, a, b, ub)
  \/ \E a \in AllocIds : \E ub \in UbOutcomes : Fresh /\ Neg(a, ub)
  \/ \E a, b \in AllocIds : \E o \in Operators : \E ub \in UbOutcomes :
       Fresh /\ BinopVal(o, a, b, ub)

SpecOps == InitOps /\ [][NextOps]_vars

\* ------------------------------------------------------------------ claims
\* The tag each bound payload type is said to carry.
ClaimTag(T) ==
  CASE T = "LuaNil" -> "Nil"
    [] T = "LuaBool" -> "Boolean"
    [] T = "LuaNumber" -> "Number"
    [] T = "LuaString" -> "String"
    [] T = "LuaUserdata" -> "Userdata"
    [] T = "LuaTable" -> "Table"

\* The tag of the payload block a was constructed from.
TagOf(a) == ClaimTag(born[a].pt)

\* The tags with an equality and an order of their own.
Comparable == {"Nil", "Boolean", "Number", "String"}

\* C1: every block in use has a handle on it and has never been released; a
\* drop never panics, and a drop that takes the last handle gives the block
\* back exactly once, after running the payload's destructor exactly once
\* when the payload has one.
C1_ReleasedExactlyOnce ==
  /\ \A a \in AllocIds :
       heap[a].st = "live" =>
         heap[a].strong >= 1 /\ heap[a].payloadDrops = 0 /\ heap[a].deallocs = 0
  /\ last.op = "drop" =>
       /\ last.panic = "none"
       /\ last.out.st = "live" =>
            last.out.strong >= 1 /\ last.out.payloadDrops = 0 /\ last.out.deallocs = 0
       /\ last.out.st = "freed" =>
            /\ last.out.deallocs = 1
            /\ NeedsDrop(last.out.pt) => last.out.payloadDrops = 1

\* C2: in every reachable state, every handle's tag is the tag of the payload
\* type it was constructed from, from_value::<U> returns the payload it was
\* constructed from when U is that type and None for every other bound type,
\* and no payload is read as another type.
C2_TagAndRecovery ==
  \A a \in AllocIds :
    heap[a].st = "live" =>
      /\ type_of(heap[a]) = TagOf(a)
      /\ \A U \in BoundTypes :
           LET r == from_value(U, heap[a])
           IN /\ r.panic = "none"
              /\ ~r.reint
              /\ r.v.some = (U = born[a].pt)
              /\ U = born[a].pt => r.v.val = born[a].val

\* C2 witness: a string handle that was cloned and one of whose clones was
\* just dropped is still recovered as its bytes, and as nothing else.
C2_Witness ==
  /\ last.op = "drop"
  /\ last.out.st = "live"
  /\ \E a \in AllocIds :
       /\ Held(a)
       /\ heap[a] = last.out
       /\ born[a] = [pt |-> "LuaString", val |-> <<52, 50>>]
       /\ from_value("LuaString", heap[a]).v = [some |-> TRUE, val |-> <<52, 50>>]
       /\ ~from_value("LuaNumber", heap[a]).v.some

\* C3: is_index answers false for a Nil handle and for a Number handle
\* holding not-a-number, and true for every other handle.
C3_IsIndex ==
  last.op = "is_index" =>
    /\ last.panic = "none"
    /\ last.out = ~(\/ TagOf(last.a) = "Nil"
                    \/ (TagOf(last.a) = "Number" /\ IsNaN(born[last.a].val)))

\* C4: two handles that compare equal hash identically.
C4_HashConsistent ==
  (last.op = "eq" /\ last.panic = "none" /\ last.out) =>
    hash(heap, heap[last.a]) = hash(heap, heap[last.b])

\* Equality of two payloads under their tag's own equality.
ClaimSame(x, y) ==
  /\ x.pt = y.pt
  /\ CASE x.pt = "LuaNumber" -> FEq(x.val, y.val)
       [] x.pt \in {"LuaNil", "LuaBool", "LuaString"} -> x.val = y.val
       [] OTHER -> FALSE

\* C5: a == b never fails, is symmetric, is false for handles of different
\* tags and, for two handles of the same tag (nil, boolean, number, string),
\* is the equality of the payloads.
C5_Equality ==
  last.op = "eq" =>
    /\ last.panic = "none"
    /\ eq(heap[last.b], heap[last.a]) = eq(heap[last.a], heap[last.b])
    /\ TagOf(last.a) # TagOf(last.b) => ~last.out
    /\ (TagOf(last.a) = TagOf(last.b) /\ TagOf(last.a) \in Comparable) =>
         last.out = ClaimSame(born[last.a], born[last.b])

\* Lexicographic order of two byte sequences.
RECURSIVE BytesCmp(_, _)
BytesCmp(s, t) ==
  CASE s = <<>> /\ t = <<>> -> "Equal"
    [] s = <<>> -> "Less"
    [] t = <<>> -> "Greater"
    [] Head(s) # Head(t) -> IntCmp(Head(s), Head(t))
    [] OTHER -> BytesCmp(Tail(s), Tail(t))

\* The order of two payloads of the same comparable type.
ClaimPayloadCmp(x, y) ==
  CASE x.pt = "LuaNil" -> "Equal"
    [] x.pt = "LuaBool" -> BoolCmp(x.val, y.val)
    [] x.pt = "LuaNumber" -> FPartialCmp(x.val, y.val)
    [] x.pt = "LuaString" -> BytesCmp(x.val, y.val)

\* C6: cmp never fails; across tags it is the order of the tags, within a
\* tag the order of the payloads; it is Equal on equal handles, and it is
\* transitive.
C6_TotalOrder ==
  /\ last.op = "cmp" =>
       /\ last.panic = "none"
       /\ TagOf(last.a) # TagOf(last.b) =>
            last.out = TypeCmp(TagOf(last.a), TagOf(last.b))
       /\ (TagOf(last.a) = TagOf(last.b) /\ TagOf(last.a) \in Comparable) =>
            last.out = ClaimPayloadCmp(born[last.a], born[last.b])
       /\ (eq(heap[last.a], heap[last.b]).panic = "none" /\ eq(heap[last.a], heap[last.b]).v) =>
            last.out = "Equal"
  /\ \A a, b, c \in AllocIds :
       (/\ Held(a) /\ Held(b) /\ Held(c)
        /\ cmp(heap[a], heap[b]).v = "Less"
        /\ cmp(heap[b], heap[c]).v = "Less") =>
         cmp(heap[a], heap[c]).v = "Less"

\* The arithmetic operation each operator stands for.
ClaimOp(operator) ==
  CASE operator = "+" -> "add"
    [] operator = "-" -> "sub"
    [] operator = "*" -> "mul"
    [] operator = "/" -> "div"

\* C7: a + b, a - b, a * b and a / b are the sum, the difference, the
\* product and the quotient of the operands' as_number coercions.
C7_OperatorsMatch ==
  (last.op \in Operators /\ last.panic = "none") =>
    last.out.val = FOp(ClaimOp(last.op),
                       as_number(heap[last.a], "err").v,
                       as_number(heap[last.b], "err").v)

\* The entries of the table block a holds, none for another payload.
ClaimEntries(a) == IF born[a].pt = "LuaTable" THEN born[a].val ELSE <<>>

\* C8: get_index never fails; it returns the handle stored under the key
\* when self is a table holding the key, and a Nil handle otherwise.
C8_GetIndexTotal ==
  last.op = "get_index" =>
    /\ last.panic = "none"
    /\ LET entries == ClaimEntries(last.a)
           hits == {i \in 1..Len(entries) : ClaimSame(born[entries[i].k], born[last.b])}
       IN IF hits # {}
          THEN last.out.found /\ \E i \in hits : last.out.ref = entries[i].v
          ELSE ~last.out.found /\ last.out.blk.ty = "Nil"

\* What a handle coerces to: its number, the number its string spells, or
\* not-a-number.
ClaimCoerce(x) ==
  CASE x.pt = "LuaNumber" -> x.val
    [] x.pt = "LuaString" /\ x.val = <<52, 50>> -> FInt(42)
    [] OTHER -> LUA_NAN

ArithOps == Operators \cup {"val" \o o : o \in Operators} \cup {"neg"}

\* C9: no arithmetic operator and no coercion fails; every operator returns
\* a Number handle; as_number is the number held, the number a string
\* spells, and not-a-number for everything else.
C9_ArithmeticTotal ==
  /\ last.op \in ArithOps => (last.panic = "none" /\ last.out.ty = "Number")
  /\ last.op = "as_number" =>
       (last.panic = "none" /\ last.out = ClaimCoerce(born[last.a]))

\* C10: to_bool answers false for the Nil handle and for the Boolean handle
\* holding false, and true for every other handle.
C10_Truthiness ==
  last.op = "to_bool" =>
    /\ last.panic = "none"
    /\ last.out = ~(\/ born[last.a].pt = "LuaNil"
                    \/ (born[last.a].pt = "LuaBool" /\ born[last.a].val = FALSE))

\* C10 witness: to_bool was asked of a handle built from the number zero and
\* answered true.
C10_Witness ==
  /\ last.op = "to_bool"
  /\ born[last.a] = [pt |-> "LuaNumber", val |-> FInt(0)]
  /\ last.out = TRUE

====
